---- MODULE Spec2Model ----
(***************************************************************************)
(* Pure-ROR-Matcher: the matching workflow of App (src/unnamed/part_000).  *)
(*                                                                         *)
(* One App instance (its React state, its tasks suspended at an await)     *)
(* runs against the Pure catalog and the ROR registry.  Other sessions of  *)
(* the same application act on the catalog through the same link protocol  *)
(* (refetch, test for a ROR identifier, PUT with the refetched version).   *)
(*                                                                         *)
(* Scores are fixed-point numbers with five decimals (0.8 is 80000).       *)
(* JavaScript null/undefined is the empty tuple None, a present value v is *)
(* Some(v) = <<v>>.  A string that the code inspects (an identifier type   *)
(* URI) is a sequence of tokens, "/" being a token.                        *)
(***************************************************************************)
EXTENDS Integers, Sequences, FiniteSets, TLC

\* ------------------------------------------------------------------ bounds
\* Edits by other actors are allowed while a record's version is below this.
MaxVersion == 2

\* ----------------------------------------------------------------- values
None == <<>>
Some(v) == <<v>>

EndsWith(str, suffix) ==
  /\ Len(str) >= Len(suffix)
  /\ SubSeq(str, Len(str) - Len(suffix) + 1, Len(str)) = suffix

UriBase ==
  <<"/", "dk", "/", "atira", "/", "pure", "/", "ueoexternalorganisation",
    "/", "ueoexternalorganisationsources">>

\* a variant: a registry type whose URI does not end in "/ror"
ROR_TYPE_OtherUri == [uri |-> UriBase \o <<"/", "ror_id">>, term |-> "ROR ID"]

\* config: export const ROR_TYPE = { uri: ".../ror", term: {...} }
ROR_TYPE == [uri |-> UriBase \o <<"/", "ror">>, term |-> "ROR ID"]

\* Another identifier type of the catalog, whose URI does not end in "/ror".
ISNI_TYPE == [uri |-> UriBase \o <<"/", "isni">>, term |-> "ISNI"]

ClassifiedId(id, type) == [typeDiscriminator |-> "ClassifiedId", id |-> id, type |-> type]

\* An identifier of the catalog that is no ClassifiedId: it carries no type.
PlainId(value) == [typeDiscriminator |-> "Id", id |-> value, type |-> [uri |-> None, term |-> ""]]

hasRorIdentifier(identifiers) ==
  \E k \in 1..Len(identifiers) :
    /\ identifiers[k].typeDiscriminator = "ClassifiedId"
    /\ identifiers[k].type.uri # None
    /\ EndsWith(identifiers[k].type.uri, <<"/", "ror">>)

\* ---------------------------------------------------------------- catalog
\* The catalog backend: an ordered collection of records, paged by offset.
VARIABLES catalog

Record(uuid, name, step, identifiers) ==
  [uuid |-> uuid, version |-> 1, name |-> name, identifiers |-> identifiers,
   workflow |-> [step |-> step]]

\* The catalogs the system may start from: two records, the first awaiting
\* approval, the second in one of the shapes the eligibility filter tells apart.
InitialCatalogs ==
  { <<Record("u1", "Aarhus University", "forApproval", ids1), r2>> :
      ids1 \in { <<>>, <<ClassifiedId("0000 0001", ISNI_TYPE), PlainId("src-17")>> },
      r2 \in { Record("u2", "", "approved", <<>>),
               Record("u2", "Old Org", "approved", <<ClassifiedId("https://ror.org/0old", ROR_TYPE)>>),
               Record("u2", "Draft Org", "draft", <<>>) } }

IndexOf(cat, uuid) ==
  IF \E k \in 1..Len(cat) : cat[k].uuid = uuid
    THEN CHOOSE k \in 1..Len(cat) : cat[k].uuid = uuid
    ELSE 0

\* GET /external-organizations?size=1&offset={n} -> {count, items}
BackendPage(cat, offset) ==
  [count |-> Len(cat),
   items |-> IF offset + 1 \in 1..Len(cat) THEN <<cat[offset + 1]>> ELSE <<>>]

\* PUT /external-organizations/{id} {version, identifiers}: the write is accepted
\* only if the version sent is the record's current version.
BackendAccepts(cat, uuid, body) ==
  /\ IndexOf(cat, uuid) # 0
  /\ cat[IndexOf(cat, uuid)].version = body.version

BackendWrite(cat, uuid, body) ==
  [cat EXCEPT ![IndexOf(cat, uuid)] =
     [@ EXCEPT !.version = @ + 1, !.identifiers = body.identifiers]]

\* --------------------------------------------------------------- registry
\* What the affiliation search may answer: lists of raw hits in registry order.
Hit(id, score, matching_type, chosen) ==
  [organization |-> [id |-> id], score |-> score, matching_type |-> matching_type,
   chosen |-> chosen]

RorResponses ==
  { <<>>,
    <<Hit("https://ror.org/0bbb", Some(50000), "FUZZY", FALSE),
      Hit("https://ror.org/0aaa", Some(95000), "EXACT", TRUE)>>,
    <<Hit("https://ror.org/0ccc", Some(65000), "PHRASE", FALSE)>>,
    <<Hit("https://ror.org/0ddd", Some(70000), "ACRONYM", FALSE)>> }

\* const sc = Number(it?.score); scoreLocal = Number.isFinite(sc) ? sc : 0
rawToItem(it) ==
  [id |-> it.organization.id,
   scoreLocal |-> IF it.score # None THEN it.score[1] ELSE 0,
   matching_type |-> it.matching_type,
   chosen |-> it.chosen,
   locations |-> None]

\* (a, b) => Number(!!b.chosen) - Number(!!a.chosen) || b.scoreLocal - a.scoreLocal
Num(b) == IF b THEN 1 ELSE 0

\* a bug: the score is compared before the recommendation
compareItemsScoreFirst(a, b) ==
  IF b.scoreLocal - a.scoreLocal # 0
    THEN b.scoreLocal - a.scoreLocal
    ELSE Num(b.chosen) - Num(a.chosen)

compareItems(a, b) ==
  IF Num(b.chosen) - Num(a.chosen) # 0
    THEN Num(b.chosen) - Num(a.chosen)
    ELSE b.scoreLocal - a.scoreLocal

\* Array.prototype.sort is stable: x goes after every element that does not
\* compare greater than it.
RECURSIVE insertSorted(_, _)
insertSorted(sorted, x) ==
  IF sorted = <<>> THEN <<x>>
  ELSE IF compareItems(sorted[1], x) <= 0
    THEN <<sorted[1]>> \o insertSorted(Tail(sorted), x)
    ELSE <<x>> \o sorted

RECURSIVE sortItems(_)
sortItems(items) ==
  IF items = <<>> THEN <<>>
  ELSE insertSorted(sortItems(SubSeq(items, 1, Len(items) - 1)), items[Len(items)])

\* items.slice(0, 10)
DetailFanOut == 10

slice(seq, n) == SubSeq(seq, 1, IF Len(seq) < n THEN Len(seq) ELSE n)

\* a bug: every item is looked up and returned
rankedItemsAll(raw) == sortItems([k \in 1..Len(raw) |-> rawToItem(raw[k])])

rankedItems(raw) ==
  slice(sortItems([k \in 1..Len(raw) |-> rawToItem(raw[k])]), DetailFanOut)

\* a bug: a candidate whose lookup failed is left out
withLocationsDropping(items, ok) ==
  LET kept == {k \in 1..Len(items) : k \in ok}
      place(j) == CHOOSE k \in kept : Cardinality({i \in kept : i < k}) = j - 1
  IN [j \in 1..Cardinality(kept) |->
        [items[place(j)] EXCEPT !.locations = Some("locations")]]

\* Promise.all over the detail lookups: the lookups in ok return locations,
\* the others are swallowed and their items kept as they are.
withLocations(items, ok) ==
  [k \in 1..Len(items) |->
     IF k \in ok THEN [items[k] EXCEPT !.locations = Some("locations")] ELSE items[k]]

\* a bug: a score of exactly 0.7 is not enough
preselectsStrict(items) == (IF items # <<>> THEN items[1].scoreLocal ELSE 0) > 70000

\* if ((itemsWithLocations[0]?.scoreLocal ?? 0) >= 0.7) setSelectedIdx(0)
preselects(items) == (IF items # <<>> THEN items[1].scoreLocal ELSE 0) >= 70000

\* ------------------------------------------------------------- texts
\* A text (what localStorage holds) is a sequence of characters; a JSON
\* text is a sequence of lexemes, the string literal "abc" being the two
\* lexemes <<Quote, "abc">>.

\* parseInt of a text without digits; NaN + n is NaN. No text of the model
\* denotes a number this far below zero.
NaN == 0 - 1000000

Plus(a, b) == IF a = NaN \/ b = NaN THEN NaN ELSE a + b

Digits == <<"0", "1", "2", "3", "4", "5", "6", "7", "8", "9">>

IsDigit(c) == \E d \in 1..10 : Digits[d] = c

DigitValue(c) == (CHOOSE d \in 1..10 : Digits[d] = c) - 1

RECURSIVE decimal(_)
decimal(n) ==
  IF n < 10 THEN <<Digits[n + 1]>>
  ELSE Append(decimal(n \div 10), Digits[(n % 10) + 1])

\* String(n)
numberToString(n) ==
  IF n = NaN THEN <<"NaN">>
  ELSE IF n < 0 THEN <<"-">> \o decimal(0 - n)
  ELSE decimal(n)

\* the end of the run of digits that starts at position i of text t
RECURSIVE digitsEnd(_, _)
digitsEnd(t, i) == IF i <= Len(t) /\ IsDigit(t[i]) THEN digitsEnd(t, i + 1) ELSE i

RECURSIVE digitsValue(_)
digitsValue(ds) ==
  IF ds = <<>> THEN 0
  ELSE 10 * digitsValue(SubSeq(ds, 1, Len(ds) - 1)) + DigitValue(ds[Len(ds)])

RECURSIVE skipBlanks(_, _)
skipBlanks(t, i) == IF i <= Len(t) /\ t[i] = " " THEN skipBlanks(t, i + 1) ELSE i

\* parseInt(text, 10): blanks, a sign, then the digits up to the first
\* character that is none; NaN when there is no digit
parseInt(t) ==
  LET b == skipBlanks(t, 1)
      signed == b <= Len(t) /\ t[b] \in {"-", "+"}
      from == IF signed THEN b + 1 ELSE b
      to == digitsEnd(t, from)
      n == digitsValue(SubSeq(t, from, to - 1))
  IN IF to = from THEN NaN
     ELSE IF signed /\ t[b] = "-" THEN 0 - n ELSE n

Quote == "\""

jsonString(str) == <<Quote, str>>

jsonMember(key, value) == jsonString(key) \o <<":">> \o value

EntryKeys == <<"ts", "uuid", "orgName", "rorId", "score", "matchType">>

NumberKeys == {"ts", "score"}

\* a bug: the match type is not written
stringifyEntryWithoutMatchType(h) ==
  <<"{">> \o jsonMember("ts", numberToString(h.ts))
    \o <<",">> \o jsonMember("uuid", jsonString(h.uuid))
    \o <<",">> \o jsonMember("orgName", jsonString(h.orgName))
    \o <<",">> \o jsonMember("rorId", jsonString(h.rorId))
    \o <<",">> \o jsonMember("score", numberToString(h.score))
    \o <<"}">>

\* JSON.stringify of one history entry
stringifyEntry(h) ==
  <<"{">> \o jsonMember("ts", numberToString(h.ts))
    \o <<",">> \o jsonMember("uuid", jsonString(h.uuid))
    \o <<",">> \o jsonMember("orgName", jsonString(h.orgName))
    \o <<",">> \o jsonMember("rorId", jsonString(h.rorId))
    \o <<",">> \o jsonMember("score", numberToString(h.score))
    \o <<",">> \o jsonMember("matchType", jsonString(h.matchType))
    \o <<"}">>

RECURSIVE stringifyEntries(_, _)
stringifyEntries(hist, k) ==
  IF k > Len(hist) THEN <<>>
  ELSE (IF k > 1 THEN <<",">> ELSE <<>>) \o stringifyEntry(hist[k])
         \o stringifyEntries(hist, k + 1)

\* JSON.stringify(history)
stringify(hist) == <<"[">> \o stringifyEntries(hist, 1) \o <<"]">>

\* the result of a step of JSON.parse: ok is false on a syntax error, next is
\* the position after what was read
Parsed(ok, next, value) == [ok |-> ok, next |-> next, value |-> value]

UndefinedEntry ==
  [ts |-> NaN, uuid |-> "", orgName |-> "", rorId |-> "", score |-> NaN, matchType |-> ""]

\* the members of an object from position i on, up to its "}"; a key that
\* is no key of a history entry is read and left out
RECURSIVE parseMembers(_, _, _)
parseMembers(t, i, entry) ==
  IF ~(i + 3 <= Len(t) /\ t[i] = Quote /\ t[i + 2] = ":")
    THEN Parsed(FALSE, i, entry)
  ELSE
    LET key == t[i + 1]
        v == i + 3
        isString == v + 1 <= Len(t) /\ t[v] = Quote
        from == IF t[v] = "-" THEN v + 1 ELSE v
        to == digitsEnd(t, from)
        isNumber == to > from
        after == IF isString THEN v + 2 ELSE to
        number == IF t[v] = "-" THEN 0 - digitsValue(SubSeq(t, from, to - 1))
                  ELSE digitsValue(SubSeq(t, from, to - 1))
        known == \E k \in 1..Len(EntryKeys) : EntryKeys[k] = key
        typed == (key \in NumberKeys) = isNumber
        with == IF ~known \/ ~typed THEN entry
                ELSE IF isString THEN [entry EXCEPT ![key] = t[v + 1]]
                ELSE [entry EXCEPT ![key] = number]
    IN IF ~(isString \/ isNumber) \/ after > Len(t) THEN Parsed(FALSE, after, entry)
       ELSE IF t[after] = "}" THEN Parsed(TRUE, after + 1, with)
       ELSE IF t[after] = "," THEN parseMembers(t, after + 1, with)
       ELSE Parsed(FALSE, after, entry)

parseObject(t, i) ==
  IF ~(i + 1 <= Len(t) /\ t[i] = "{") THEN Parsed(FALSE, i, UndefinedEntry)
  ELSE IF t[i + 1] = "}" THEN Parsed(TRUE, i + 2, UndefinedEntry)
  ELSE parseMembers(t, i + 1, UndefinedEntry)

\* the elements of an array of objects from position i on, up to its "]"
RECURSIVE parseElements(_, _, _)
parseElements(t, i, items) ==
  LET el == parseObject(t, i) IN
    IF ~el.ok \/ el.next > Len(t) THEN Parsed(FALSE, el.next, items)
    ELSE IF t[el.next] = "]" THEN Parsed(TRUE, el.next + 1, Append(items, el.value))
    ELSE IF t[el.next] = "," THEN parseElements(t, el.next + 1, Append(items, el.value))
    ELSE Parsed(FALSE, el.next, items)

\* JSON.parse(text): threw on a syntax error; else the kind of the value and,
\* for an array of objects, its elements read as history entries
parseJson(t) ==
  LET result(threw, kind, items) == [threw |-> threw, kind |-> kind, items |-> items]
      endsAt(n) == n = Len(t) + 1
  IN IF t = <<>> THEN result(TRUE, "", <<>>)
     ELSE IF t[1] = "[" THEN
       IF Len(t) >= 2 /\ t[2] = "]"
         THEN result(~endsAt(3), "array", <<>>)
         ELSE LET els == parseElements(t, 2, <<>>)
              IN result(~(els.ok /\ endsAt(els.next)), "array", IF els.ok THEN els.value ELSE <<>>)
     ELSE IF t[1] = "{" THEN
       LET obj == parseObject(t, 1)
       IN result(~(obj.ok /\ endsAt(obj.next)), "object", <<>>)
     ELSE IF t = <<"null">> THEN result(FALSE, "null", <<>>)
     ELSE IF digitsEnd(t, 1) > 1 THEN result(~endsAt(digitsEnd(t, 1)), "number", <<>>)
     ELSE result(TRUE, "", <<>>)

\* ------------------------------------------------------------- App state
VARIABLES
  mounted,      \* the mount effect has run
  org,          \* useState<ExtOrgItem | null>
  candidates,   \* useState<...[]>
  selectedIdx,  \* useState<number | null>, 0-based
  error,        \* useState<string | null>
  loading,      \* useState(false): the busy flag
  toast,        \* useState<Toast>
  confirmOpen,  \* useState(false): the confirmation modal
  points,       \* useState<number>: the cumulative score
  history,      \* useState<HistoryEntry[]>
  task,         \* the async function suspended at an await, with its locals
  sent,         \* the requests sent since the last trigger, in order
  caught,       \* the exception bound by the catch block that ran last
  peer          \* other sessions: the record each refetched, if any

Peers == {"p1"}

Task(op, at, chosenItem, latestRec, items) ==
  [op |-> op, at |-> at, chosen |-> chosenItem, latest |-> latestRec, items |-> items]

Request(kind, target, offset, body) ==
  [kind |-> kind, target |-> target, offset |-> offset, body |-> body]

CountRequest == Request("count", "", 0, None)
PageRequest(offset) == Request("page", "", offset, None)
ByIdRequest(uuid) == Request("byId", uuid, 0, None)
SearchRequest(name) == Request("search", name, 0, None)
DetailRequest(id) == Request("detail", id, 0, None)

\* putOrg: only version + identifiers are sent, the uuid is in the URL
PutRequest(payload) ==
  Request("put", payload.uuid, 0,
          Some([version |-> payload.version, identifiers |-> payload.identifiers]))

JsError(name, text, status) == [name |-> name, message |-> <<text, status>>]

\* fetch() rejects when the network fails
NetworkError == JsError("TypeError", "Failed to fetch", 0)

HistoryCap == 50

\* ------------------------------------------------------------ useLimitedFetch
VARIABLES
  clock,        \* Date.now(), in ms since the limiter was created
  lastCall,     \* useRef(0)
  lim,          \* each caller of the limited fetch: idle, or asleep until wake
  arrivals,     \* the number of calls made so far
  released      \* the requests handed to fetch(), in order, with their times

limVars == <<clock, lastCall, lim, arrivals, released>>

\* ------------------------------------------------------------ localStorage
VARIABLES
  storage       \* the texts under ror_match_points and ror_match_history

\* what the two persistence effects (lines 172, 182-184) leave in localStorage
Persist(p, h) ==
  [points |-> Some(numberToString(p)), history |-> Some(stringify(h))]

\* the effects run after every render of the mounted App
writeThrough ==
  storage' = IF mounted' THEN Persist(points', history') ELSE storage

\* ------------------------------------------------------- derived for display
VARIABLES
  arg,          \* what a function of the candidates is applied to
  result        \* and what it returned

pureVars == <<arg, result>>

\* const limitedFetch = useLimitedFetch(350)
rateLimitMs == 350

\* the clock moves in steps of TickMs up to MaxClock; MaxCalls calls are made
TickMs == 50
MaxClock == 900
MaxCalls == 3

Callers == {"a", "b"}

vars ==
  <<catalog, mounted, org, candidates, selectedIdx, error, loading, toast,
    confirmOpen, points, history, task, sent, caught, peer,
    clock, lastCall, lim, arrivals, released, storage, arg, result>>

Last(seq) == seq[Len(seq)]

At(position) == task # None /\ task[1].at = position

\* ------------------------------------------------------------ fetchRandomOrg
\* a bug: Math.round in place of Math.floor
randomOffsetsRounded(count) == 0..count

\* Math.floor(Math.random() * count)
randomOffsets(count) == 0..(count - 1)

\* a bug: the workflow step is not tested
eligibleItemAnyStep(data) ==
  IF /\ data.items # <<>>
     /\ ~hasRorIdentifier(data.items[1].identifiers)
    THEN Some(data.items[1])
    ELSE None

\* lines 223-232: the item of the probed page, if it is eligible
eligibleItem(data) ==
  IF /\ data.items # <<>>
     /\ data.items[1].workflow.step \in {"forApproval", "approved"}
     /\ ~hasRorIdentifier(data.items[1].identifiers)
    THEN Some(data.items[1])
    ELSE None

NoEligibleError ==
  JsError("Error", "No eligible external organizations found right now.", 0)

\* ------------------------------------------------------------------ loadNext
\* a bug: loadNext keeps the selection
loadNextBeginKeeping(op) ==
  /\ error' = None
  /\ loading' = TRUE
  /\ candidates' = <<>>
  /\ org' = None
  /\ task' = Some(Task(op, "count", None, None, <<>>))
  /\ UNCHANGED selectedIdx

\* a bug: loadNext keeps the candidates of the record before
loadNextBeginStale(op) ==
  /\ error' = None
  /\ loading' = TRUE
  /\ selectedIdx' = None
  /\ org' = None
  /\ task' = Some(Task(op, "count", None, None, <<>>))
  /\ UNCHANGED candidates

\* lines 323-329: the synchronous start of loadNext, up to the count request
loadNextBegin(op) ==
  /\ error' = None
  /\ loading' = TRUE
  /\ candidates' = <<>>
  /\ selectedIdx' = None
  /\ org' = None
  /\ task' = Some(Task(op, "count", None, None, <<>>))

\* a bug: no finally, the busy flag stays set after a failure
loadNextCatchBusy(e) ==
  /\ error' = Some(e.message)
  /\ caught' = Some(e)
  /\ loading' = TRUE
  /\ task' = None

\* lines 334-338: catch (e) { setError(e.message) } finally { setLoading(false) }
loadNextCatch(e) ==
  /\ error' = Some(e.message)
  /\ caught' = Some(e)
  /\ loading' = FALSE
  /\ task' = None

\* useEffect(() => { loadNext() }, [])
MountEffect ==
  /\ ~mounted
  /\ mounted' = TRUE
  /\ loadNextBegin("loadNext")
  /\ sent' = <<CountRequest>>
  /\ caught' = None
  /\ UNCHANGED <<catalog, toast, confirmOpen, points, history, peer>>
  /\ UNCHANGED <<limVars, pureVars>>
  /\ writeThrough

\* a bug: the Next button is not disabled while an operation is in flight
ClickNextWhileBusy ==
  /\ mounted
  /\ loadNextBegin("loadNext")
  /\ sent' = <<CountRequest>>
  /\ caught' = None
  /\ UNCHANGED <<catalog, mounted, toast, confirmOpen, points, history, peer>>
  /\ UNCHANGED <<limVars, pureVars>>
  /\ writeThrough

\* <button onClick={loadNext} disabled={loading}>
ClickNext ==
  /\ mounted
  /\ ~loading
  /\ loadNextBegin("loadNext")
  /\ sent' = <<CountRequest>>
  /\ caught' = None
  /\ UNCHANGED <<catalog, mounted, toast, confirmOpen, points, history, peer>>
  /\ UNCHANGED <<limVars, pureVars>>
  /\ writeThrough

\* getCount answered, fetchRandomOrg goes on to the probe (lines 207-220)
CountResponse ==
  /\ At("count")
  /\ \/ \E e \in {JsError("Error", "Failed to fetch count: ", 500), NetworkError} :
          /\ loadNextCatch(e)
          /\ UNCHANGED <<org, candidates, selectedIdx, sent>>
     \/ LET count == BackendPage(catalog, 0).count IN
          IF count = 0
            THEN /\ loadNextCatch(NoEligibleError)
                 /\ UNCHANGED <<org, candidates, selectedIdx, sent>>
            ELSE \E offset \in randomOffsets(count) :
                   /\ task' = Some([task[1] EXCEPT !.at = "page"])
                   /\ sent' = Append(sent, PageRequest(offset))
                   /\ UNCHANGED <<org, candidates, selectedIdx, error, loading, caught>>
  /\ UNCHANGED <<catalog, mounted, toast, confirmOpen, points, history, peer>>
  /\ UNCHANGED <<limVars, pureVars>>
  /\ writeThrough

\* the probe answered (lines 221-233), then loadNext lines 330-333 and
\* searchRor lines 272-276
PageResponse ==
  /\ At("page")
  /\ \/ \E e \in {JsError("Error", "Failed to fetch org: ", 500), NetworkError} :
          /\ loadNextCatch(e)
          /\ UNCHANGED <<org, candidates, selectedIdx, sent>>
     \/ LET candidate == eligibleItem(BackendPage(catalog, Last(sent).offset)) IN
          IF candidate = None
            THEN /\ loadNextCatch(NoEligibleError)
                 /\ UNCHANGED <<org, candidates, selectedIdx, sent>>
            ELSE /\ org' = candidate
                 /\ IF candidate[1].name = ""
                      THEN /\ candidates' = <<>>
                           /\ loading' = FALSE
                           /\ task' = None
                           /\ UNCHANGED sent
                      ELSE /\ task' = Some([task[1] EXCEPT !.at = "search"])
                           /\ sent' = Append(sent, SearchRequest(candidate[1].name))
                           /\ UNCHANGED <<candidates, loading>>
                 /\ UNCHANGED <<selectedIdx, error, caught>>
  /\ UNCHANGED <<catalog, mounted, toast, confirmOpen, points, history, peer>>
  /\ UNCHANGED <<limVars, pureVars>>
  /\ writeThrough

\* lines 316-318 and 333, 337: the search returns its items
searchReturns(items) ==
  /\ selectedIdx' = IF preselects(items) THEN Some(0) ELSE selectedIdx
  /\ candidates' = items
  /\ loading' = FALSE
  /\ task' = None

\* the affiliation search answered (lines 277-300)
SearchResponse ==
  /\ At("search")
  /\ \/ \E e \in {JsError("Error", "ROR affiliation search failed: ", 500), NetworkError} :
          /\ loadNextCatch(e)
          /\ UNCHANGED <<candidates, selectedIdx, sent>>
     \/ \E raw \in RorResponses :
          LET items == rankedItems(raw) IN
            IF items = <<>>
              THEN /\ searchReturns(items)
                   /\ UNCHANGED <<error, caught, sent>>
              ELSE /\ task' = Some([task[1] EXCEPT !.at = "details", !.items = items])
                   /\ sent' = sent \o [k \in 1..Len(items) |-> DetailRequest(items[k].id)]
                   /\ UNCHANGED <<candidates, selectedIdx, error, loading, caught>>
  /\ UNCHANGED <<catalog, mounted, org, toast, confirmOpen, points, history, peer>>
  /\ UNCHANGED <<limVars, pureVars>>
  /\ writeThrough

\* every detail lookup has settled (lines 299-318)
DetailResponses ==
  /\ At("details")
  /\ \E ok \in SUBSET (1..Len(task[1].items)) :
       searchReturns(withLocations(task[1].items, ok))
  /\ UNCHANGED <<catalog, mounted, org, error, toast, confirmOpen, points, history,
                 sent, caught, peer>>
  /\ UNCHANGED <<limVars, pureVars>>
  /\ writeThrough

\* -------------------------------------------------------------------- doLink
\* the modal is rendered: confirmOpen && org && selectedIdx !== null &&
\* candidates[selectedIdx]
ModalShown ==
  /\ confirmOpen
  /\ org # None
  /\ selectedIdx # None
  /\ selectedIdx[1] + 1 \in 1..Len(candidates)

\* a bug: the loaded copy is tested for a ROR identifier, not the refetched one
refetchedIsLinkedStale(latest) == hasRorIdentifier(org[1].identifiers)

\* line 350: if (hasRorIdentifier(latest.identifiers))
refetchedIsLinked(latest) == hasRorIdentifier(latest.identifiers)

\* a bug: the identifiers of the record are replaced by the new one
newIdentifiersReplacing(latest, chosen) == <<ClassifiedId(chosen.id, ROR_TYPE)>>

\* lines 357-360
newIdentifiers(latest, chosen) ==
  latest.identifiers \o <<ClassifiedId(chosen.id, ROR_TYPE)>>

\* a bug: the version of the copy loaded by loadNext is sent
putPayloadStale(current, latest, chosen) ==
  [uuid |-> latest.uuid, version |-> current.version,
   identifiers |-> newIdentifiers(latest, chosen)]

\* line 362: putOrg({ uuid: latest.uuid, version: latest.version, identifiers })
putPayload(current, latest, chosen) ==
  [uuid |-> latest.uuid, version |-> latest.version,
   identifiers |-> newIdentifiers(latest, chosen)]

\* a variant: a 409 is thrown as an error of a kind of its own
putOrgOutcomeTyped(res) ==
  IF res.status \in 200..299
    THEN [threw |-> FALSE, error |-> JsError("", "", 0),
          value |-> IF res.json THEN "updated" ELSE "status"]
    ELSE [threw |-> TRUE,
          error |-> JsError(IF res.status = 409 THEN "ConflictError" ELSE "Error",
                            "PUT failed: ", res.status),
          value |-> ""]

\* a bug: a body that is no JSON makes putOrg fail
putOrgOutcomeUnguarded(res) ==
  IF ~res.json
    THEN [threw |-> TRUE, error |-> JsError("SyntaxError", "Unexpected token", 0),
          value |-> ""]
  ELSE IF res.status \in 200..299
    THEN [threw |-> FALSE, error |-> JsError("", "", 0), value |-> "updated"]
    ELSE [threw |-> TRUE, error |-> JsError("Error", "PUT failed: ", res.status),
          value |-> ""]

\* lines 257-265: the outcome of putOrg for a response
putOrgOutcome(res) ==
  IF res.status \in 200..299
    THEN [threw |-> FALSE, error |-> JsError("", "", 0),
          value |-> IF res.json THEN "updated" ELSE "status"]
    ELSE [threw |-> TRUE, error |-> JsError("Error", "PUT failed: ", res.status),
          value |-> ""]

\* a bug: the boundaries fall in the lower tier
awardStrict(sl) == IF sl > 80000 THEN 10 ELSE IF sl > 60000 THEN 5 ELSE 1

\* const award = sl >= 0.8 ? 10 : sl >= 0.6 ? 5 : 1
award(sl) == IF sl >= 80000 THEN 10 ELSE IF sl >= 60000 THEN 5 ELSE 1

HistoryEntry(latest, chosen) ==
  [ts |-> clock,
   uuid |-> latest.uuid,
   orgName |-> IF latest.name # "" THEN latest.name ELSE "External organization",
   rorId |-> chosen.id,
   score |-> chosen.scoreLocal,
   matchType |-> chosen.matching_type]

\* a bug: the failure path closes the confirmation
doLinkCatchClosing(e) ==
  /\ error' = Some(e.message)
  /\ toast' = Some([type |-> "error", message |-> <<"Failed to write to Pure: ">> \o e.message])
  /\ caught' = Some(e)
  /\ loading' = FALSE
  /\ task' = None
  /\ confirmOpen' = FALSE
  /\ UNCHANGED <<org, candidates, selectedIdx, points, history, sent>>

\* lines 391-396: catch (e) { setError; setToast } finally { setLoading(false) }
doLinkCatch(e) ==
  /\ error' = Some(e.message)
  /\ toast' = Some([type |-> "error", message |-> <<"Failed to write to Pure: ">> \o e.message])
  /\ caught' = Some(e)
  /\ loading' = FALSE
  /\ task' = None
  /\ UNCHANGED <<org, candidates, selectedIdx, confirmOpen, points, history, sent>>

\* <button onClick={doLink} disabled={loading}> of the modal; lines 341-349
ClickConfirm ==
  /\ ModalShown
  /\ ~loading
  /\ task' = Some(Task("doLink", "fetchOrg", Some(candidates[selectedIdx[1] + 1]), None, <<>>))
  /\ loading' = TRUE
  /\ error' = None
  /\ sent' = <<ByIdRequest(org[1].uuid)>>
  /\ caught' = None
  /\ UNCHANGED <<catalog, mounted, org, candidates, selectedIdx, toast, confirmOpen,
                 points, history, peer>>
  /\ UNCHANGED <<limVars, pureVars>>
  /\ writeThrough

\* a bug: the short-circuit leaves the confirmation open
alreadyLinkedStaysOpen ==
  /\ toast' = Some([type |-> "success", message |-> <<"Already linked: ROR ID is present.">>])
  /\ loadNextBegin("doLink")
  /\ sent' = Append(sent, CountRequest)
  /\ UNCHANGED <<confirmOpen, points, history, caught>>

\* a bug: the short-circuit awards a point
alreadyLinkedAwarding ==
  /\ toast' = Some([type |-> "success", message |-> <<"Already linked: ROR ID is present.">>])
  /\ confirmOpen' = FALSE
  /\ loadNextBegin("doLink")
  /\ sent' = Append(sent, CountRequest)
  /\ points' = Plus(points, 1)
  /\ UNCHANGED <<history, caught>>

\* lines 350-355: the refetched record is linked already
alreadyLinked ==
  /\ toast' = Some([type |-> "success", message |-> <<"Already linked: ROR ID is present.">>])
  /\ confirmOpen' = FALSE
  /\ loadNextBegin("doLink")
  /\ sent' = Append(sent, CountRequest)
  /\ UNCHANGED <<points, history, caught>>

\* lines 357-362: the write is sent
sendPut(latest) ==
  /\ task' = Some([task[1] EXCEPT !.at = "putOrg", !.latest = Some(latest)])
  /\ sent' = Append(sent, PutRequest(putPayload(org[1], latest, task[1].chosen[1])))
  /\ UNCHANGED <<org, candidates, selectedIdx, error, loading, toast, confirmOpen,
                 points, history, caught>>

\* fetchOrg answered (lines 235-240, 349-362)
FetchOrgResponse ==
  /\ At("fetchOrg")
  /\ LET k == IndexOf(catalog, Last(sent).target) IN
       \/ \E e \in {JsError("Error", "Failed to fetch organization: ",
                            IF k = 0 THEN 404 ELSE 500), NetworkError} :
            doLinkCatch(e)
       \/ /\ k # 0
          /\ IF refetchedIsLinked(catalog[k])
               THEN alreadyLinked
               ELSE sendPut(catalog[k])
  /\ UNCHANGED <<catalog, mounted, peer>>
  /\ UNCHANGED <<limVars, pureVars>>
  /\ writeThrough

\* a bug: the history is not cut
recordLinkUncapped(latest, chosen) ==
  /\ points' = Plus(points, award(chosen.scoreLocal))
  /\ history' = <<HistoryEntry(latest, chosen)>> \o history

\* lines 364-384: setPoints((p) => p + award), setHistory((h) => [entry, ...h].slice(0, 50))
recordLink(latest, chosen) ==
  /\ points' = Plus(points, award(chosen.scoreLocal))
  /\ history' = slice(<<HistoryEntry(latest, chosen)>> \o history, HistoryCap)

\* a bug: the candidate is read from the selection when the write has succeeded
linkedCurrentSelection ==
  LET chosen == candidates[selectedIdx[1] + 1]
      latest == task[1].latest[1]
  IN /\ recordLink(latest, chosen)
     /\ toast' = Some([type |-> "success",
                       message |-> <<"Linked ROR to ", IF latest.name # "" THEN latest.name ELSE "Org">>])
     /\ confirmOpen' = FALSE
     /\ loadNextBegin("doLink")
     /\ sent' = Append(sent, CountRequest)
     /\ UNCHANGED caught

\* lines 364-390: the write succeeded
linked ==
  LET chosen == task[1].chosen[1]
      latest == task[1].latest[1]
  IN /\ recordLink(latest, chosen)
     /\ toast' = Some([type |-> "success",
                       message |-> <<"Linked ROR to ", IF latest.name # "" THEN latest.name ELSE "Org">>])
     /\ confirmOpen' = FALSE
     /\ loadNextBegin("doLink")
     /\ sent' = Append(sent, CountRequest)
     /\ UNCHANGED caught

\* a bug: a rejected write is sent again
afterPutRetrying(res) ==
  IF putOrgOutcome(res).threw
    THEN IF res.status = 409
           THEN /\ sent' = Append(sent, Last(sent))
                /\ UNCHANGED <<org, candidates, selectedIdx, error, loading, toast,
                               confirmOpen, points, history, task, caught>>
           ELSE doLinkCatch(putOrgOutcome(res).error)
    ELSE linked

\* what doLink does with the response to its PUT (line 362 on)
afterPut(res) ==
  IF putOrgOutcome(res).threw THEN doLinkCatch(putOrgOutcome(res).error) ELSE linked

\* the PUT reached the backend, or failed on the way (lines 251-265, 362-396)
PutResponse ==
  /\ At("putOrg")
  /\ LET uuid == Last(sent).target
         body == Last(sent).body[1]
     IN \/ /\ BackendAccepts(catalog, uuid, body)
           /\ catalog' = BackendWrite(catalog, uuid, body)
           /\ \/ \E json \in BOOLEAN : afterPut([status |-> 200, json |-> json])
              \/ doLinkCatch(NetworkError)
        \/ /\ ~BackendAccepts(catalog, uuid, body)
           /\ afterPut([status |-> IF IndexOf(catalog, uuid) = 0 THEN 404 ELSE 409,
                        json |-> TRUE])
           /\ UNCHANGED catalog
        \/ /\ \/ \E json \in BOOLEAN : afterPut([status |-> 500, json |-> json])
              \/ doLinkCatch(NetworkError)
           /\ UNCHANGED catalog
  /\ UNCHANGED <<mounted, peer>>
  /\ UNCHANGED <<limVars, pureVars>>
  /\ writeThrough

\* ---------------------------------------------------------------- the user
\* <input type="radio" onChange={() => setSelectedIdx(i)}>
SelectCandidate ==
  /\ \E i \in 0..(Len(candidates) - 1) :
       /\ selectedIdx # Some(i)
       /\ selectedIdx' = Some(i)
  /\ UNCHANGED <<catalog, mounted, org, candidates, error, loading, toast, confirmOpen,
                 points, history, task, sent, caught, peer>>
  /\ UNCHANGED <<limVars, pureVars>>
  /\ writeThrough

\* <button onClick={openConfirm} disabled={loading || selectedIdx === null}>
openConfirm ==
  /\ ~loading
  /\ selectedIdx # None
  /\ org # None
  /\ selectedIdx[1] >= 0
  /\ confirmOpen' = TRUE
  /\ UNCHANGED <<catalog, mounted, org, candidates, selectedIdx, error, loading, toast,
                 points, history, task, sent, caught, peer>>
  /\ UNCHANGED <<limVars, pureVars>>
  /\ writeThrough

\* Cancel, the close button and the backdrop of the modal
CloseConfirm ==
  /\ ModalShown
  /\ confirmOpen' = FALSE
  /\ UNCHANGED <<catalog, mounted, org, candidates, selectedIdx, error, loading, toast,
                 points, history, task, sent, caught, peer>>
  /\ UNCHANGED <<limVars, pureVars>>
  /\ writeThrough

\* setTimeout(() => setToast(null), 3000)
HideToast ==
  /\ toast # None
  /\ toast' = None
  /\ UNCHANGED <<catalog, mounted, org, candidates, selectedIdx, error, loading,
                 confirmOpen, points, history, task, sent, caught, peer>>
  /\ UNCHANGED <<limVars, pureVars>>
  /\ writeThrough

\* a bug: Clear resets the score as well
ClearHistoryAndScore ==
  /\ mounted
  /\ history' = <<>>
  /\ points' = 0
  /\ UNCHANGED <<catalog, mounted, org, candidates, selectedIdx, error, loading, toast,
                 confirmOpen, task, sent, caught, peer>>
  /\ UNCHANGED <<limVars, pureVars>>
  /\ writeThrough

\* Clear: if (window.confirm("Clear link history?")) setHistory([])
ClearHistory ==
  /\ mounted
  /\ history' = <<>>
  /\ UNCHANGED <<catalog, mounted, org, candidates, selectedIdx, error, loading, toast,
                 confirmOpen, points, task, sent, caught, peer>>
  /\ UNCHANGED <<limVars, pureVars>>
  /\ writeThrough

\* ----------------------------------------------------------- other actors
appVars ==
  <<mounted, org, candidates, selectedIdx, error, loading, toast, confirmOpen,
    points, history, task, sent, caught>>

PeerCandidate == rawToItem(Hit("https://ror.org/0peer", Some(90000), "EXACT", TRUE))

\* another session refetches a record it has loaded (doLink line 349)
PeerFetch(p) ==
  /\ peer[p] = None
  /\ \E k \in 1..Len(catalog) :
       /\ catalog[k].workflow.step \in {"forApproval", "approved"}
       /\ ~hasRorIdentifier(catalog[k].identifiers)
       /\ peer' = [peer EXCEPT ![p] = Some(catalog[k])]
  /\ UNCHANGED <<catalog, appVars>>
  /\ UNCHANGED <<limVars, pureVars>>
  /\ writeThrough

\* and sends its write (doLink lines 357-362), which the backend accepts or not
PeerPut(p) ==
  /\ peer[p] # None
  /\ LET payload == putPayload(peer[p][1], peer[p][1], PeerCandidate)
         body == PutRequest(payload).body[1]
     IN catalog' = IF BackendAccepts(catalog, payload.uuid, body)
                     THEN BackendWrite(catalog, payload.uuid, body)
                     ELSE catalog
  /\ peer' = [peer EXCEPT ![p] = None]
  /\ UNCHANGED appVars
  /\ UNCHANGED <<limVars, pureVars>>
  /\ writeThrough

\* an editor of the catalog changes a record: its version moves on
CatalogEdit ==
  /\ \E k \in 1..Len(catalog) :
       /\ catalog[k].version < MaxVersion
       /\ catalog' = [catalog EXCEPT ![k].version = @ + 1]
  /\ UNCHANGED <<appVars, peer>>
  /\ UNCHANGED <<limVars, pureVars>>
  /\ writeThrough

\* the catalog archives its last record
CatalogArchive ==
  /\ catalog # <<>>
  /\ catalog' = SubSeq(catalog, 1, Len(catalog) - 1)
  /\ UNCHANGED <<appVars, peer>>
  /\ UNCHANGED <<limVars, pureVars>>
  /\ writeThrough

\* ------------------------------------------------------------ specification
AppInit ==
  /\ mounted = FALSE
  /\ org = None
  /\ candidates = <<>>
  /\ selectedIdx = None
  /\ error = None
  /\ loading = FALSE
  /\ toast = None
  /\ confirmOpen = FALSE
  /\ points = 0
  /\ history = <<>>
  /\ task = None
  /\ sent = <<>>
  /\ caught = None
  /\ peer = [p \in Peers |-> None]

\* The limiter is created with lastCall = 0 long after the epoch: the first
\* call finds more than rateLimitMs elapsed.
LimiterInit ==
  /\ clock = rateLimitMs
  /\ lastCall = 0
  /\ lim = [c \in Callers |-> [at |-> "idle", call |-> 0, wake |-> 0]]
  /\ arrivals = 0
  /\ released = <<>>

\* nothing is stored yet: the initializers of points and history (lines
\* 171-181) gave 0 and []
StorageInit == storage = [points |-> None, history |-> None]

PureInit == arg = <<>> /\ result = <<>>

Init ==
  /\ catalog \in InitialCatalogs
  /\ AppInit
  /\ LimiterInit
  /\ StorageInit
  /\ PureInit

Next ==
  \/ MountEffect
  \/ ClickNext
  \/ CountResponse
  \/ PageResponse
  \/ SearchResponse
  \/ DetailResponses
  \/ SelectCandidate
  \/ openConfirm
  \/ CloseConfirm
  \/ ClickConfirm
  \/ FetchOrgResponse
  \/ PutResponse
  \/ HideToast
  \/ ClearHistory
  \/ \E p \in Peers : PeerFetch(p)
  \/ \E p \in Peers : PeerPut(p)
  \/ CatalogEdit
  \/ CatalogArchive

Spec == Init /\ [][Next]_vars

\* ------------------------------------------------- the limiter on its own
\* lines 103-109: lastCall.current = Date.now(); return fetch(...)
release(c, call) ==
  /\ lastCall' = clock
  /\ released' = Append(released, [caller |-> c, call |-> call, at |-> clock])
  /\ lim' = [lim EXCEPT ![c] = [at |-> "idle", call |-> 0, wake |-> 0]]

\* lines 100-102: a caller enters the limited fetch
LimitedFetchCall(c) ==
  /\ lim[c].at = "idle"
  /\ arrivals < MaxCalls
  /\ arrivals' = arrivals + 1
  /\ LET now == clock
         delta == now - lastCall
     IN IF delta < rateLimitMs
          THEN /\ lim' = [lim EXCEPT ![c] = [at |-> "sleeping", call |-> arrivals + 1,
                                             wake |-> now + (rateLimitMs - delta)]]
               /\ UNCHANGED <<lastCall, released>>
          ELSE release(c, arrivals + 1)
  /\ UNCHANGED <<clock, catalog, appVars, peer, storage, pureVars>>

\* the timer of sleep() fires, not before its time
LimitedFetchWake(c) ==
  /\ lim[c].at = "sleeping"
  /\ clock >= lim[c].wake
  /\ release(c, lim[c].call)
  /\ UNCHANGED <<clock, arrivals, catalog, appVars, peer, storage, pureVars>>

Tick ==
  /\ clock + TickMs <= MaxClock
  /\ clock' = clock + TickMs
  /\ UNCHANGED <<lastCall, lim, arrivals, released, catalog, appVars, peer, storage, pureVars>>

LimiterSpecInit ==
  /\ catalog = <<>>
  /\ AppInit
  /\ LimiterInit
  /\ StorageInit
  /\ PureInit

LimiterNext ==
  \/ \E c \in Callers : LimitedFetchCall(c)
  \/ \E c \in Callers : LimitedFetchWake(c)
  \/ Tick

LimiterSpec == LimiterSpecInit /\ [][LimiterNext]_vars

\* ------------------------------------------- the functions on their own
\* The sort of searchRor, rorDisplayName / rorAliasList and the award of
\* doLink, applied to arguments drawn from bounded sets.

\* a string whose case matters: its lower-case form, and which of its
\* spellings it is (0 is the lower-case spelling itself)
Str(lower, form) == [lower |-> lower, form |-> form]

toLowerCase(str) == [str EXCEPT !.form = 0]

\* String.prototype.trim: the blank string becomes the empty string
trim(str) == IF str.lower = " " THEN Str("", 0) ELSE str

\* a string is truthy unless it is empty
Truthy(str) == str.lower # ""

RorName(value, types) == [value |-> value, types |-> types]

RorOrg(id, name, names, aliases) ==
  [id |-> id, name |-> name, names |-> names, aliases |-> aliases]

\* r.names?.find((n) => n.types?.includes(type))
findByType(names, type) ==
  IF \E k \in 1..Len(names) : type \in names[k].types
    THEN Some(names[CHOOSE k \in 1..Len(names) :
                      /\ type \in names[k].types
                      /\ \A j \in 1..(k - 1) : type \notin names[j].types])
    ELSE None

\* lines 132-140
rorDisplayName(r) ==
  IF r.name # None /\ Truthy(r.name[1]) /\ Truthy(trim(r.name[1]))
    THEN r.name[1]
    ELSE LET names == IF r.names # None THEN r.names[1] ELSE <<>>
             pick == IF findByType(names, "ror_display") # None
                       THEN findByType(names, "ror_display")
                     ELSE IF findByType(names, "label") # None
                       THEN findByType(names, "label")
                     ELSE IF names # <<>> THEN Some(names[1]) ELSE None
         IN IF pick # None /\ Truthy(pick[1].value) THEN pick[1].value ELSE Str(r.id, 0)

\* Array.prototype.filter
RECURSIVE filterSeq(_, _)
filterSeq(seq, keep) ==
  IF seq = <<>> THEN <<>>
  ELSE (IF seq[1] \in keep THEN <<seq[1]>> ELSE <<>>) \o filterSeq(Tail(seq), keep)

\* Array.from(new Set(seq)): equal strings once, in the order of their first
\* occurrence; strings that differ in case are not equal
RECURSIVE unique(_)
unique(seq) ==
  IF seq = <<>> THEN <<>>
  ELSE LET init == unique(SubSeq(seq, 1, Len(seq) - 1))
           x == seq[Len(seq)]
       IN IF \E k \in 1..Len(init) : init[k] = x THEN init ELSE Append(init, x)

\* lines 142-153
rorAliasList(r) ==
  LET names == IF r.names # None THEN r.names[1] ELSE <<>>
      tagged == filterSeq(names, {n \in {names[k] : k \in 1..Len(names)} : "alias" \in n.types})
      fromNames == filterSeq([k \in 1..Len(tagged) |-> tagged[k].value],
                             {v \in {tagged[k].value : k \in 1..Len(tagged)} : Truthy(v)})
      fromAliasesField == IF r.aliases # None THEN r.aliases[1] ELSE <<>>
      display == toLowerCase(rorDisplayName(r))
      merged == unique(fromAliasesField \o fromNames)
  IN filterSeq(merged,
               {a \in {merged[k] : k \in 1..Len(merged)} : Truthy(a) /\ toLowerCase(a) # display})

\* at most MaxHits hits are ranked
MaxHits == 3

HitIds ==
  <<"https://ror.org/0h1", "https://ror.org/0h2", "https://ror.org/0h3",
    "https://ror.org/0h4", "https://ror.org/0h5">>

\* the lists of raw hits: in each place a score of 0.95, of 0.5 or none, and
\* recommended or not
RawHitLists ==
  UNION { { [k \in 1..n |-> Hit(HitIds[k], shape[k][1], "EXACT", shape[k][2])] :
              shape \in [1..n -> {None, Some(50000), Some(95000)} \X BOOLEAN] } :
          n \in 0..MaxHits }

\* registry organisations: with and without a curated name, tagged names and
\* aliases, some of them spelled twice, in one case or in two
RorOrgs ==
  { RorOrg("https://ror.org/0h1", name, names, aliases) :
      name \in {None, Some(Str("mit", 1)), Some(Str(" ", 0))},
      names \in {None,
                 Some(<<RorName(Str("institute", 1), {"alias"}),
                        RorName(Str("massachusetts", 1), {"ror_display", "label"})>>),
                 Some(<<RorName(Str("mit", 2), {"alias"}),
                        RorName(Str("m.i.t.", 0), {"label"}),
                        RorName(Str("", 0), {"alias"})>>),
                 Some(<<RorName(Str("", 0), {"acronym"})>>)},
      aliases \in {None,
                   Some(<<Str("mit", 1), Str("mit", 0)>>),
                   Some(<<Str("tech", 1), Str("tech", 1), Str("massachusetts", 0)>>),
                   Some(<<Str("institute", 1), Str("m.i.t.", 1)>>)} }

\* scores in [0, 1], in hundred-thousandths
Scores == {0, 10000, 59999, 60000, 79999, 80000, 90000, 100000}

\* a response to the PUT: its status, and whether its body is JSON
Response(status, json) == [status |-> status, json |-> json]

PutResponses ==
  {Response(status, json) : status \in {200, 204, 299, 300, 404, 409, 500}, json \in BOOLEAN}

Arg(fn, hits, r, score) ==
  [fn |-> fn, hits |-> hits, org |-> r, score |-> score, res |-> Response(0, FALSE)]

Result(ranked, display, aliases, awarded) ==
  [ranked |-> ranked, display |-> display, aliases |-> aliases, awarded |-> awarded,
   outcome |-> [threw |-> FALSE, error |-> JsError("", "", 0), value |-> ""]]

Args ==
  {Arg("sort", hits, RorOrg("", None, None, None), 0) : hits \in RawHitLists}
    \cup {Arg("aliases", <<>>, r, 0) : r \in RorOrgs}
    \cup {Arg("award", <<>>, RorOrg("", None, None, None), score) : score \in Scores}
    \cup {[Arg("putOrg", <<>>, RorOrg("", None, None, None), 0) EXCEPT !.res = res] :
             res \in PutResponses}

\* lines 282-296: raw.map(...), items.sort(...)
ApplySort ==
  /\ arg.fn = "sort"
  /\ result = None
  /\ result' = Some(Result(sortItems([k \in 1..Len(arg.hits) |-> rawToItem(arg.hits[k])]),
                           Str("", 0), <<>>, 0))
  /\ UNCHANGED <<catalog, appVars, peer, limVars, storage, arg>>

\* lines 697, 707: rorAliasList(c), rorDisplayName(c)
ApplyAliasList ==
  /\ arg.fn = "aliases"
  /\ result = None
  /\ result' = Some(Result(<<>>, rorDisplayName(arg.org), rorAliasList(arg.org), 0))
  /\ UNCHANGED <<catalog, appVars, peer, limVars, storage, arg>>

\* lines 365-366
ApplyAward ==
  /\ arg.fn = "award"
  /\ result = None
  /\ result' = Some(Result(<<>>, Str("", 0), <<>>, award(arg.score)))
  /\ UNCHANGED <<catalog, appVars, peer, limVars, storage, arg>>

\* lines 257-265: putOrg after its request is answered
ApplyPutOrg ==
  /\ arg.fn = "putOrg"
  /\ result = None
  /\ result' = Some([Result(<<>>, Str("", 0), <<>>, 0) EXCEPT !.outcome = putOrgOutcome(arg.res)])
  /\ UNCHANGED <<catalog, appVars, peer, limVars, storage, arg>>

FunctionInit ==
  /\ catalog = <<>>
  /\ AppInit
  /\ LimiterInit
  /\ StorageInit
  /\ arg \in Args
  /\ result = None

FunctionNext == ApplySort \/ ApplyAliasList \/ ApplyAward \/ ApplyPutOrg

FunctionSpec == FunctionInit /\ [][FunctionNext]_vars

\* ------------------------------------------- progress and its persistence
\* The score and the history over restarts of the App: start-up from what
\* localStorage holds, links recorded, the history cleared, the page reloaded.

\* the model follows MaxLinks links of a session
MaxLinks == 2

\* an entry of an earlier session, the k-th newest
EarlierEntry(k) ==
  [ts |-> 300 - k, uuid |-> "u1", orgName |-> "Aarhus University",
   rorId |-> "https://ror.org/0aaa", score |-> 95000, matchType |-> "EXACT"]

\* what an earlier session may have left: a score, and a history that is
\* empty, short, one below the cap or at the cap
ProgressStates ==
  {0, 7, 120} \X { [k \in 1..n |-> EarlierEntry(k)] : n \in {0, 1, HistoryCap - 1, HistoryCap} }

\* texts under ror_match_points that are no integer: empty, letters, a
\* number followed by letters
MalformedPointsTexts == {<<>>, <<"a", "b", "c">>, <<"1", "2", "p", "t", "s">>}

\* texts under ror_match_history that are no list of entries: no JSON at
\* all, a list cut short, an object, null
MalformedHistoryTexts ==
  {<<"<", "html", ">">>, <<"[", "{">>, <<"{", "}">>, <<"null">>}

\* the records and candidates of the links that are recorded
LinkedRecords == {Record("u2", "", "approved", <<>>)}

LinkedCandidates ==
  {rawToItem(Hit("https://ror.org/0bbb", Some(50000), "FUZZY", FALSE)),
   rawToItem(Hit("https://ror.org/0aaa", Some(95000), "EXACT", TRUE))}

\* the user has the page reloaded: the App's state is gone (the variables
\* keep the last state of the session that ended), localStorage stays
Reload ==
  /\ mounted
  /\ mounted' = FALSE
  /\ UNCHANGED <<catalog, org, candidates, selectedIdx, error, loading, toast, confirmOpen,
                 points, history, task, sent, caught, peer, limVars, storage, pureVars>>

\* lines 171-184 and the first render: the initializers read localStorage,
\* the history panel is rendered (lines 785-789), the effects write back
Start ==
  /\ ~mounted
  /\ caught = None
  /\ LET pointsText == IF storage.points # None /\ storage.points[1] # <<>>
                         THEN storage.points[1] ELSE <<"0">>
         historyText == IF storage.history # None /\ storage.history[1] # <<>>
                          THEN storage.history[1] ELSE <<"[", "]">>
         parsed == parseJson(historyText)
     IN IF ~parsed.threw /\ parsed.kind # "array"
          THEN \* history.length / history.slice(0, 20) throws while rendering
               /\ caught' = Some(JsError("TypeError", "history.slice is not a function", 0))
               /\ UNCHANGED <<mounted, points, history, storage>>
          ELSE /\ points' = parseInt(pointsText)
               /\ history' = IF parsed.threw THEN <<>> ELSE parsed.items
               /\ mounted' = TRUE
               /\ writeThrough
               /\ UNCHANGED caught
  /\ UNCHANGED <<catalog, org, candidates, selectedIdx, error, loading, toast, confirmOpen,
                 task, sent, peer, limVars, pureVars>>

\* doLink lines 364-384 after a PUT that succeeded, some time after the
\* link before
LinkRecorded ==
  /\ mounted
  /\ clock + TickMs <= rateLimitMs + MaxLinks * TickMs
  /\ clock' = clock + TickMs
  /\ \E latest \in LinkedRecords, chosen \in LinkedCandidates : recordLink(latest, chosen)
  /\ UNCHANGED <<catalog, mounted, org, candidates, selectedIdx, error, loading, toast,
                 confirmOpen, task, sent, caught, peer, lastCall, lim, arrivals, released,
                 pureVars>>
  /\ writeThrough

ProgressInit ==
  /\ catalog = <<>>
  /\ mounted = FALSE
  /\ org = None
  /\ candidates = <<>>
  /\ selectedIdx = None
  /\ error = None
  /\ loading = FALSE
  /\ toast = None
  /\ confirmOpen = FALSE
  /\ task = None
  /\ sent = <<>>
  /\ caught = None
  /\ peer = [p \in Peers |-> None]
  /\ LimiterInit
  /\ PureInit
  /\ \E state \in ProgressStates :
       /\ points = state[1]
       /\ history = state[2]
       /\ storage \in
            { [points |-> pointsText, history |-> historyText] :
                pointsText \in {None, Persist(state[1], state[2]).points}
                                 \cup {Some(t) : t \in MalformedPointsTexts},
                historyText \in {None, Persist(state[1], state[2]).history}
                                  \cup {Some(t) : t \in MalformedHistoryTexts} }

ProgressNext == Start \/ LinkRecorded \/ ClearHistory \/ Reload

ProgressSpec == ProgressInit /\ [][ProgressNext]_vars

\* ------------------------------------------- the App with stored progress
\* The App started in a browser that holds the progress of an earlier
\* session: a score of 7 and one entry.
StoredScore == 7

StoredHistory == <<[EarlierEntry(1) EXCEPT !.uuid = "u0"]>>

ResumedInit ==
  /\ catalog = <<Record("u1", "Aarhus University", "forApproval", <<>>),
                 Record("u2", "Draft Org", "draft", <<>>)>>
  /\ mounted = FALSE
  /\ org = None
  /\ candidates = <<>>
  /\ selectedIdx = None
  /\ error = None
  /\ loading = FALSE
  /\ toast = None
  /\ confirmOpen = FALSE
  /\ points = parseInt(numberToString(StoredScore))
  /\ history = parseJson(stringify(StoredHistory)).items
  /\ task = None
  /\ sent = <<>>
  /\ caught = None
  /\ peer = [p \in Peers |-> None]
  /\ LimiterInit
  /\ storage = Persist(StoredScore, StoredHistory)
  /\ PureInit

ResumedSpec == ResumedInit /\ [][Next]_vars

\* --------------------------------------------------- searchRor on its own
\* searchRor (lines 269-319) called for a record's name, its detail lookups
\* settling one by one in any order.

\* the longest response of the registry that is followed
MaxRaw == 11

LongIds ==
  <<"https://ror.org/0l01", "https://ror.org/0l02", "https://ror.org/0l03",
    "https://ror.org/0l04", "https://ror.org/0l05", "https://ror.org/0l06",
    "https://ror.org/0l07", "https://ror.org/0l08", "https://ror.org/0l09",
    "https://ror.org/0l10", "https://ror.org/0l11", "https://ror.org/0l12",
    "https://ror.org/0l13", "https://ror.org/0l14">>

\* a response of n hits in ascending order of score, the third recommended
LongResponse(n) ==
  [k \in 1..n |-> Hit(LongIds[k], Some(20000 + 5000 * k), "FUZZY", k = 3)]

\* what the affiliation search may answer: the short responses, one whose
\* recommended hit has no score, and responses of more hits than are looked up
SearchResponses ==
  RorResponses
    \cup { <<Hit("https://ror.org/0eee", None, "HEURISTIC", TRUE),
             Hit("https://ror.org/0fff", Some(69999), "COMMON TERMS", FALSE)>> }
    \cup { LongResponse(n) : n \in (DetailFanOut + 1)..MaxRaw }

\* searchRor(o): the name of o and what the registry answers for it
SearchArg(name, raw) == [fn |-> "searchRor", name |-> name, raw |-> raw]

\* the promise of searchRor once it is settled
Settled(threw, e, value) == [threw |-> threw, error |-> e, value |-> value]

\* searchRor suspended at an await: the ranked items and the state of the
\* lookup of each
Lookups(at, items, lookups) == [op |-> "searchRor", at |-> at, items |-> items, lookups |-> lookups]

\* a lookup ends with locations ("ok": detailRes.ok and a body that parses,
\* lines 305-307) or without ("failed": a status that is no success, or
\* fetch() or json() rejecting, lines 309-312)
LookupOutcomes == {"ok", "failed"}

\* lines 272-276: a blank name returns [] at once, any other is searched
SearchCall ==
  /\ task = None
  /\ result = None
  /\ IF arg.name = ""
       THEN /\ result' = Some(Settled(FALSE, JsError("", "", 0), <<>>))
            /\ UNCHANGED <<task, sent>>
       ELSE /\ task' = Some(Lookups("search", <<>>, <<>>))
            /\ sent' = <<SearchRequest(arg.name)>>
            /\ UNCHANGED result
  /\ UNCHANGED <<catalog, mounted, org, candidates, selectedIdx, error, loading, toast,
                 confirmOpen, points, history, caught, peer, limVars, storage, arg>>

\* lines 277-304: the search failed, or its items are ranked and the first
\* ten looked up, all at once
SearchAnswered ==
  /\ At("search")
  /\ \/ \E e \in {JsError("Error", "ROR affiliation search failed: ", 500), NetworkError} :
          /\ result' = Some(Settled(TRUE, e, <<>>))
          /\ task' = Some([task[1] EXCEPT !.at = "threw"])
          /\ UNCHANGED sent
     \/ LET items == rankedItems(arg.raw) IN
          /\ task' = Some(Lookups("details", items, [k \in 1..Len(items) |-> "pending"]))
          /\ sent' = sent \o [k \in 1..Len(items) |-> DetailRequest(items[k].id)]
          /\ UNCHANGED result
  /\ UNCHANGED <<catalog, mounted, org, candidates, selectedIdx, error, loading, toast,
                 confirmOpen, points, history, caught, peer, limVars, storage, arg>>

\* lines 304-312: one of the lookups ends
DetailSettles ==
  /\ At("details")
  /\ \E k \in 1..Len(task[1].items), outcome \in LookupOutcomes :
       /\ task[1].lookups[k] = "pending"
       /\ task' = Some([task[1] EXCEPT !.lookups[k] = outcome])
  /\ UNCHANGED <<catalog, mounted, org, candidates, selectedIdx, error, loading, toast,
                 confirmOpen, points, history, sent, caught, peer, limVars, storage,
                 pureVars>>

\* lines 299, 316-318: Promise.all resolves when every lookup has ended
SearchReturns ==
  /\ At("details")
  /\ \A k \in 1..Len(task[1].items) : task[1].lookups[k] # "pending"
  /\ LET itemsWithLocations ==
           withLocations(task[1].items,
                         {k \in 1..Len(task[1].items) : task[1].lookups[k] = "ok"})
     IN /\ selectedIdx' = IF preselects(itemsWithLocations) THEN Some(0) ELSE selectedIdx
        /\ result' = Some(Settled(FALSE, JsError("", "", 0), itemsWithLocations))
  /\ task' = Some([task[1] EXCEPT !.at = "returned"])
  /\ UNCHANGED <<catalog, mounted, org, candidates, error, loading, toast,
                 confirmOpen, points, history, sent, caught, peer, limVars, storage, arg>>

SearchInit ==
  /\ catalog = <<>>
  /\ AppInit
  /\ LimiterInit
  /\ StorageInit
  /\ arg \in {SearchArg(name, raw) : name \in {"", "Aarhus University"}, raw \in SearchResponses}
  /\ result = None

SearchNext == SearchCall \/ SearchAnswered \/ DetailSettles \/ SearchReturns

SearchSpec == SearchInit /\ [][SearchNext]_vars

\* ---------------------------------------------------------------- properties
\* An Identifier is the registry identifier when its type reference ends in
\* the registry-type suffix.
IsRegistryIdentifier(id) ==
  /\ id.type.uri # None
  /\ Len(id.type.uri) >= 2
  /\ id.type.uri[Len(id.type.uri) - 1] = "/"
  /\ id.type.uri[Len(id.type.uri)] = "ror"

RegistryIdCount(identifiers) ==
  Cardinality({k \in 1..Len(identifiers) : IsRegistryIdentifier(identifiers[k])})

KindCount(log, kind) == Cardinality({k \in 1..Len(log) : log[k].kind = kind})

\* the App's task took a step
TaskStep == task' # task

\* this step sent a PUT
PutSent == Len(sent') > Len(sent) /\ Last(sent').kind = "put"

\* the record that a refetch in flight is answered with, if the catalog has it
Refetched == catalog[IndexOf(catalog, Last(sent).target)]

RefetchAnswered ==
  At("fetchOrg") /\ TaskStep /\ caught' = None /\ IndexOf(catalog, Last(sent).target) # 0

AlreadyLinkedToast ==
  Some([type |-> "success", message |-> <<"Already linked: ROR ID is present.">>])

\* C1: whatever the interleaving of this session's confirmLink with the
\* confirmLink of other sessions on the same record, under a catalog that
\* accepts a write only with the current version, no record ever holds more
\* than one registry Identifier (every record starts with at most one).
C1_AtMostOneRegistryId ==
  \A k \in 1..Len(catalog) : RegistryIdCount(catalog[k].identifiers) <= 1

\* The race: this session has linked a record of which another session holds
\* an unlinked refetched copy, its own write still to come.
C1_Witness ==
  \E p \in Peers :
    /\ peer[p] # None
    /\ history # <<>>
    /\ history[1].uuid = peer[p][1].uuid
    /\ RegistryIdCount(peer[p][1].identifiers) = 0

\* C2: when the refetched record carries a registry Identifier already,
\* confirmLink reports "already linked" as a success, closes the confirmation
\* and starts loadNext (its count request is the next request), and it sends
\* no PUT: a PUT is only ever sent on a refetch that shows no registry Identifier.
C2_AlreadyLinkedShortCircuit ==
  [][ /\ (RefetchAnswered /\ RegistryIdCount(Refetched.identifiers) > 0)
          => /\ toast' = AlreadyLinkedToast
             /\ confirmOpen' = FALSE
             /\ sent' = Append(sent, CountRequest)
             /\ task' # None
             /\ task'[1].at = "count"
             /\ loading'
             /\ org' = None
             /\ catalog' = catalog
      /\ PutSent => (RefetchAnswered /\ RegistryIdCount(Refetched.identifiers) = 0)
    ]_vars

C2_Witness ==
  /\ toast = AlreadyLinkedToast
  /\ ~confirmOpen
  /\ task # None
  /\ task[1].op = "doLink"
  /\ task[1].at = "count"
  /\ KindCount(sent, "put") = 0

\* C3: a PUT of confirmLink carries the version that the refetch of the same
\* record returned in this invocation, the refetch being the request sent
\* just before it; when the copy loaded by loadNext has another version, that
\* version is not the one sent.
C3_FreshToken ==
  [][ PutSent =>
        /\ RefetchAnswered
        /\ sent' = Append(sent, Last(sent'))
        /\ Last(sent) = ByIdRequest(Last(sent').target)
        /\ Last(sent').body[1].version = Refetched.version
        /\ (org[1].version # Refetched.version
              => Last(sent').body[1].version # org[1].version)
    ]_vars

\* A PUT is in flight whose version differs from the loaded copy's.
C3_Witness ==
  /\ At("putOrg")
  /\ org # None
  /\ Last(sent).body[1].version # org[1].version

\* C4: the body of the PUT holds the version and the identifiers and nothing
\* else (the record id is in the URL only); its identifiers are those of the
\* refetched record, in their order and unchanged, followed by exactly one
\* new ClassifiedId of the registry type whose id is the id of the candidate
\* that was selected when the confirmation was confirmed.
C4_PutPayload ==
  [][ /\ PutSent =>
           LET body == Last(sent').body[1] IN
             /\ DOMAIN body = {"version", "identifiers"}
             /\ body.version = Refetched.version
             /\ Len(body.identifiers) = Len(Refetched.identifiers) + 1
             /\ SubSeq(body.identifiers, 1, Len(Refetched.identifiers)) = Refetched.identifiers
             /\ Last(body.identifiers) =
                  [typeDiscriminator |-> "ClassifiedId", id |-> task[1].chosen[1].id,
                   type |-> ROR_TYPE]
             /\ IsRegistryIdentifier(Last(body.identifiers))
      /\ (task = None /\ task' # None /\ task'[1].at = "fetchOrg")
           => task'[1].chosen = Some(candidates[selectedIdx[1] + 1])
    ]_vars

\* A PUT is in flight for a record that had two identifiers of other types.
C4_Witness ==
  /\ At("putOrg")
  /\ Len(Last(sent).body[1].identifiers) = 3
  /\ RegistryIdCount(Last(sent).body[1].identifiers) = 1

\* a step of confirmLink: its start, its PUT being sent, or its failure
DoLinkFails ==
  /\ task # None
  /\ task[1].at \in {"fetchOrg", "putOrg"}
  /\ TaskStep
  /\ caught' # None

DoLinkGoesOn == TaskStep /\ task' # None /\ task'[1].at \in {"fetchOrg", "putOrg"}

StalePut ==
  /\ IndexOf(catalog, Last(sent).target) # 0
  /\ Refetched.version # Last(sent).body[1].version

PutFails == At("putOrg") /\ TaskStep /\ caught' # None

C7_NoAutomaticRetry ==
  /\ KindCount(sent, "put") <= 1
  /\ \A k \in 1..Len(sent) :
       sent[k].kind = "put" => (k = 2 /\ sent[1] = ByIdRequest(sent[2].target))
  /\ (caught # None /\ sent # <<>> /\ Last(sent).kind = "put") => (task = None /\ ~loading)

\* A new confirmLink has its PUT in flight while the toast of the rejection of
\* an earlier one is still shown.
C7_Witness ==
  /\ At("putOrg")
  /\ toast = Some([type |-> "error",
                   message |-> <<"Failed to write to Pure: ", "PUT failed: ", 409>>])

EligibleRecord(r) ==
  /\ r.workflow.step \in {"forApproval", "approved"}
  /\ RegistryIdCount(r.identifiers) = 0

\* the page that a probe in flight is answered with
Probed == BackendPage(catalog, Last(sent).offset).items

\* the probe was answered (the request did not fail)
ProbeAnswered ==
  At("page") /\ TaskStep /\ caught' \in {None, Some(NoEligibleError)}

\* C8: the record that fetchRandomEligible returns, which loadNext loads, is
\* awaiting approval or approved and carries no registry Identifier; and an
\* answered probe returns the probed record if it is such a record, and none
\* found otherwise.
C8_OnlyEligibleReturned ==
  /\ [](org # None => EligibleRecord(org[1]))
  /\ [][ ProbeAnswered =>
           IF Probed # <<>> /\ EligibleRecord(Probed[1])
             THEN org' = Some(Probed[1]) /\ caught' = None
             ELSE org' = None /\ caught' = Some(NoEligibleError)
       ]_vars

\* An approved record and a record with identifiers of other types are loaded.
C8_Witness ==
  /\ org # None
  /\ org[1].workflow.step = "approved"
  /\ task = None

\* this step sent a page probe
ProbeSent == Len(sent') > Len(sent) /\ Last(sent').kind = "page"

\* the count request was answered (the request did not fail)
CountAnswered ==
  At("count") /\ TaskStep /\ caught' \in {None, Some(NoEligibleError)}

\* fetchRandomEligible has returned, a record or none found
FetchRandomReturned ==
  /\ task = None
  /\ sent # <<>>
  /\ caught \in {None, Some(NoEligibleError)}

\* C9 as claimed: every call of fetchRandomEligible that returns has made
\* exactly one page probe.
C9_ExactlyOneProbe == FetchRandomReturned => KindCount(sent, "page") = 1

\* C9 as amended: a call of fetchRandomEligible makes at most one page probe,
\* and exactly one, right after the count and at an offset in [0, count), when
\* the count is answered with a count above zero; when the count is zero it
\* makes none and returns none found. When the probed record is ineligible
\* or the probed page is empty, none found is returned as a value: loadNext
\* reports its own message, sends nothing more and clears the busy flag, and
\* the next request is the first of a new trigger.
C9_OneProbe ==
  /\ [](/\ KindCount(sent, "page") <= 1
        /\ \A k \in 1..Len(sent) :
             sent[k].kind = "page" => (k > 1 /\ sent[k - 1] = CountRequest))
  /\ [][ /\ ProbeSent =>
              /\ CountAnswered
              /\ sent' = Append(sent, Last(sent'))
              /\ Len(catalog) > 0
              /\ Last(sent').offset \in 0..(Len(catalog) - 1)
         /\ CountAnswered =>
              IF Len(catalog) > 0
                THEN ProbeSent /\ caught' = None
                ELSE caught' = Some(NoEligibleError) /\ sent' = sent /\ task' = None
         /\ (ProbeAnswered /\ (Probed = <<>> \/ ~EligibleRecord(Probed[1]))) =>
              /\ caught' = Some(NoEligibleError)
              /\ error' = Some(NoEligibleError.message)
              /\ sent' = sent
              /\ task' = None
              /\ ~loading'
         /\ (task = None /\ sent' # sent) =>
              /\ Len(sent') = 1
              /\ sent'[1].kind \in {"count", "byId"}
              /\ ~loading
       ]_vars

\* The one probe of a call fell on an empty page, and none found was returned.
C9_Witness ==
  /\ task = None
  /\ caught = Some(NoEligibleError)
  /\ KindCount(sent, "page") = 1
  /\ Last(sent).kind = "page"
  /\ Last(sent).offset = 1
  /\ Len(catalog) = 1

\* C10 as claimed: of any two requests released one after the other by the
\* one limiter, the later is released at least rateLimitMs after the earlier.
C10_Spacing ==
  \A k \in 2..Len(released) : released[k].at - released[k - 1].at >= rateLimitMs

\* a trigger (the mount effect, Next, Confirm) starts an operation: the log
\* of requests starts anew with the operation's first request
Triggered ==
  /\ task' # None
  /\ Len(sent') = 1
  /\ sent' # sent \/ task = None

\* C11: an operation is in flight exactly while the busy flag is set, so at
\* most one is: a trigger starts a loadNext or a confirmLink only when none
\* is in flight and the busy flag is clear, every request is sent by the
\* operation in flight or by a trigger, and the busy flag stays set until
\* the operation's last request is answered.
C11_OneOperationInFlight ==
  /\ [](loading <=> task # None)
  /\ [][ /\ Triggered => (task = None /\ ~loading /\ loading')
         /\ (sent' # sent) => (Triggered \/ (task # None /\ loading))
         /\ (task # None /\ task' # None) => (loading' /\ task'[1].op = task[1].op)
       ]_vars

\* The PUT of a confirmLink is in flight and the confirmation still shows
\* its (disabled) Confirm button.
C11_Witness ==
  /\ At("putOrg")
  /\ loading
  /\ ModalShown

\* the PUT of a confirmLink was answered with success
PutSucceeds == At("putOrg") /\ TaskStep /\ caught' = None

\* C12 as claimed: the score and the history change only in the step in
\* which an update() succeeds.
C12_ChangeOnlyOnUpdate ==
  [][ (points' # points \/ history' # history) => PutSucceeds ]_vars

\* C12 as amended: the score changes only when an update() succeeds, and the
\* history only then or when the user clears it (Clear empties it at any
\* time and leaves the score). A successful update adds award(score of the
\* candidate chosen for this confirmLink) to the score and prepends one entry
\* for the refetched record and that candidate; every other step of a
\* loadNext or confirmLink (short-circuit, failed refetch, rejected write,
\* each step of loadNext, also of the loadNext that follows a link) leaves
\* both as they are.
C12_ScoreAndHistory ==
  [][ /\ PutSucceeds =>
           LET chosen == task[1].chosen[1] IN
             /\ points' = points + award(chosen.scoreLocal)
             /\ Len(history') = IF Len(history) < HistoryCap THEN Len(history) + 1 ELSE HistoryCap
             /\ history'[1].uuid = Last(sent).target
             /\ history'[1].rorId = chosen.id
             /\ history'[1].score = chosen.scoreLocal
             /\ \A k \in 2..Len(history') : history'[k] = history[k - 1]
      /\ (points' # points) => PutSucceeds
      /\ (history' # history) =>
           \/ PutSucceeds
           \/ history' = <<>> /\ UNCHANGED <<points, task, sent, loading>>
      /\ (TaskStep /\ ~PutSucceeds) => UNCHANGED <<points, history>>
    ]_vars

\* A link was recorded and the loadNext that followed found no eligible
\* record.
C12_Witness ==
  /\ task = None
  /\ points > 0
  /\ Len(history) = 1
  /\ caught = Some(NoEligibleError)
  /\ KindCount(sent, "put") = 1

\* Every request is answered at last, by a response or an error: each of the
\* steps that take an answer is taken if it stays possible.
Answered ==
  /\ WF_vars(CountResponse)
  /\ WF_vars(PageResponse)
  /\ WF_vars(SearchResponse)
  /\ WF_vars(DetailResponses)
  /\ WF_vars(FetchOrgResponse)
  /\ WF_vars(PutResponse)

\* The catalog the liveness is checked from: an unlinked record awaiting
\* approval and a draft (records become linked, edited and removed on the
\* way).
LiveInit ==
  /\ Init
  /\ catalog[1].identifiers = <<>>
  /\ catalog[2].workflow.step = "draft"

LiveSpec == LiveInit /\ [][Next]_vars /\ Answered

\* C13: if every request is answered, every loadNext and every confirmLink
\* comes to its end with the busy flag clear, whatever fails on the way.
C13_OperationsFinish == (task # None) ~> (task = None /\ ~loading)

\* A confirmLink whose refetch failed has ended with the busy flag clear and
\* the confirmation still open: Confirm can be clicked again.
C13_Witness ==
  /\ task = None
  /\ ~loading
  /\ ModalShown
  /\ caught # None
  /\ Last(sent).kind = "byId"

\* this step sent the count request: a loadNext started
LoadNextStarts == sent' # sent /\ Last(sent') = CountRequest

\* this step sent the registry search
SearchSent == Len(sent') > Len(sent) /\ Last(sent').kind = "search"

\* C14 as claimed: when the probe is answered, the registry search is sent
\* if and only if a record was returned.
C14_SearchIffRecord == [][ ProbeAnswered => (SearchSent <=> org' # None) ]_vars

\* C14 as amended: loadNext first clears the record, the candidates and the
\* selection, which stay clear until the probe is answered; it sends the
\* registry search, for the record's name, if and only if a record with a
\* name that is not blank was returned; a record without a name is loaded
\* with no candidates and no search; and when no record is returned it ends
\* with no record, no candidates, no selection and the error message set.
C14_LoadNext ==
  /\ []((At("count") \/ At("page")) => (org = None /\ candidates = <<>> /\ selectedIdx = None))
  /\ [][ /\ LoadNextStarts =>
              (org' = None /\ candidates' = <<>> /\ selectedIdx' = None /\ loading')
         /\ SearchSent =>
              /\ ProbeAnswered
              /\ org' # None
              /\ org'[1].name # ""
              /\ Last(sent') = SearchRequest(org'[1].name)
         /\ (ProbeAnswered /\ org' # None) =>
              IF org'[1].name # ""
                THEN SearchSent
                ELSE sent' = sent /\ candidates' = <<>> /\ task' = None /\ error' = None
         /\ (task # None /\ task[1].at \in {"count", "page"} /\ task' = None /\ org' = None) =>
              /\ candidates' = <<>>
              /\ selectedIdx' = None
              /\ error' # None
              /\ KindCount(sent', "search") = 0
       ]_vars

\* A record without a name is loaded: no search was sent for it.
C14_Witness ==
  /\ task = None
  /\ org # None
  /\ org[1].name = ""
  /\ candidates = <<>>
  /\ error = None
  /\ KindCount(sent, "search") = 0

\* the place of a candidate in the registry's answer
PlaceOf(hits, item) == CHOOSE k \in 1..Len(hits) : hits[k].organization.id = item.id

\* C15: the ranked list is a permutation of the mapped hits; a recommended
\* candidate never comes after one that is not; of two candidates with the
\* same flag the later has no higher score; and two with the same flag and
\* score are in the registry's order.
C15_Ranking ==
  (arg.fn = "sort" /\ result # None) =>
    LET ranked == result[1].ranked
        hits == arg.hits
    IN /\ Len(ranked) = Len(hits)
       /\ \A k \in 1..Len(hits) :
            Cardinality({j \in 1..Len(ranked) : ranked[j] = rawToItem(hits[k])}) = 1
       /\ \A i, j \in 1..Len(ranked) :
            i < j =>
              /\ ranked[j].chosen => ranked[i].chosen
              /\ (ranked[i].chosen = ranked[j].chosen)
                   => ranked[i].scoreLocal >= ranked[j].scoreLocal
              /\ (ranked[i].chosen = ranked[j].chosen
                    /\ ranked[i].scoreLocal = ranked[j].scoreLocal)
                   => PlaceOf(hits, ranked[i]) < PlaceOf(hits, ranked[j])

\* Of two hits with score 0.95 the second is recommended, and is ranked
\* first; a third hit has no score.
C15_Witness ==
  /\ arg.fn = "sort"
  /\ result # None
  /\ Len(arg.hits) = 3
  /\ arg.hits[1].score = Some(95000) /\ ~arg.hits[1].chosen
  /\ arg.hits[2].score = Some(95000) /\ arg.hits[2].chosen
  /\ arg.hits[3].score = None
  /\ result[1].ranked[1].id = arg.hits[2].organization.id

\* C16 as claimed: no alias of the list is the display name in another
\* case, and no two aliases of the list are the same but for case.
C16_AliasList ==
  (arg.fn = "aliases" /\ result # None) =>
    LET aliases == result[1].aliases
        display == result[1].display
    IN /\ \A k \in 1..Len(aliases) : aliases[k].lower # display.lower
       /\ \A i, j \in 1..Len(aliases) : i # j => aliases[i].lower # aliases[j].lower

\* C17: a score of 0.8 or more is awarded 10 points, a score from 0.6 up to
\* but not 0.8 is awarded 5, any lower score 1.
C17_Award ==
  (arg.fn = "award" /\ result # None) =>
    LET s == arg.score
        a == result[1].awarded
    IN /\ (s >= 80000) => a = 10
       /\ (60000 <= s /\ s < 80000) => a = 5
       /\ (s < 60000) => a = 1
       /\ a \in {1, 5, 10}

\* The boundary 0.8 was awarded 10 points.
C17_Witness ==
  /\ arg.fn = "award"
  /\ arg.score = 80000
  /\ result = Some(Result(<<>>, Str("", 0), <<>>, 10))

\* a link is recorded in this step (time moves on with every link)
LinkStep == mounted /\ clock' > clock

\* the App starts in this step, or fails to
StartStep == ~mounted /\ (mounted' \/ caught' # caught)

\* C18: the history never holds more than 50 entries and is ordered
\* newest-first; a link puts its entry first and keeps the entries before
\* it in order, all of them below the cap, and all but the oldest at the cap.
C18_HistoryCap ==
  /\ [](/\ Len(history) <= HistoryCap
        /\ \A k \in 1..(Len(history) - 1) : history[k].ts >= history[k + 1].ts)
  /\ [][ LinkStep =>
           /\ history'[1].ts = clock
           /\ \A k \in 1..Len(history) : history[k].ts < clock
           /\ Len(history') = IF Len(history) = HistoryCap THEN HistoryCap ELSE Len(history) + 1
           /\ \A k \in 2..Len(history') : history'[k] = history[k - 1]
           /\ (Len(history) = HistoryCap) =>
                \A k \in 1..Len(history') : history'[k] # history[HistoryCap]
       ]_vars

\* A link was recorded on a history of 50 entries: its entry is first and
\* the entry that was the 49th is the last.
C18_Witness ==
  /\ mounted
  /\ Len(history) = HistoryCap
  /\ history[1].ts >= rateLimitMs
  /\ history[HistoryCap] = EarlierEntry(HistoryCap - 1)

\* C19: a start that finds in localStorage what the effects wrote for a
\* score and a history gives that score and that history, entry by entry,
\* and writes the same texts back.
C19_RoundTrip ==
  [][ (StartStep /\ points # NaN /\ storage = Persist(points, history)) =>
        /\ mounted'
        /\ points' = points
        /\ history' = history
        /\ storage' = storage
    ]_vars

\* The App has started from the stored score 120 and the stored history of
\* 50 entries.
C19_Witness ==
  /\ mounted
  /\ clock = rateLimitMs
  /\ points = 120
  /\ history = [k \in 1..HistoryCap |-> EarlierEntry(k)]
  /\ storage = Persist(points, history)

\* C20 as claimed: a start on a malformed text succeeds, with the score 0
\* for a malformed score text and the empty history for a malformed history
\* text.
C20_MalformedIsEmpty ==
  [][ StartStep =>
        /\ mounted'
        /\ (storage.points # None /\ storage.points[1] \in MalformedPointsTexts)
             => points' = 0
        /\ (storage.history # None /\ storage.history[1] \in MalformedHistoryTexts)
             => history' = <<>>
    ]_vars

\* the registry search of a loadNext succeeded in this step: searchRor
\* returned its list
SearchReturned ==
  /\ task # None
  /\ task[1].at \in {"search", "details"}
  /\ task' = None
  /\ caught' = None

\* C21: when the registry search of a loadNext succeeds, the first candidate
\* is selected if and only if the list is not empty and the score of its
\* first, top-ranked candidate is at least 0.7, and nothing else is selected;
\* that step sends nothing and leaves the catalog alone, and an update is
\* only ever sent as the second request of a confirmLink, after its refetch.
C21_Preselection ==
  /\ [](\A k \in 1..Len(sent) :
          sent[k].kind = "put" => (k = 2 /\ sent[1].kind = "byId"))
  /\ [][ /\ SearchReturned =>
              /\ selectedIdx' = IF candidates' # <<>> /\ candidates'[1].scoreLocal >= 70000
                                  THEN Some(0) ELSE None
              /\ sent' = sent
              /\ catalog' = catalog
              /\ ~confirmOpen' \/ confirmOpen
         /\ PutSent => (At("fetchOrg") /\ ~SearchReturned)
       ]_vars

\* A loadNext has ended with its only candidate, of score 0.7, selected,
\* and no update sent.
C21_Witness ==
  /\ task = None
  /\ ~loading
  /\ Len(candidates) = 1
  /\ candidates[1].scoreLocal = 70000
  /\ selectedIdx = Some(0)
  /\ KindCount(sent, "put") = 0
  /\ KindCount(sent, "search") = 1

\* searchRor has returned its list
SearchDone == At("returned") /\ result # None /\ ~result[1].threw

\* C22: a detail lookup that fails does not make searchRor fail and touches
\* no other candidate: the list returned has the ranked items in their
\* places, each with the data of the search result, with locations where the
\* lookup succeeded and without where it failed; searchRor fails only when
\* the search itself does, before any lookup.
C22_LookupFailureSwallowed ==
  /\ (result # None /\ result[1].threw) => KindCount(sent, "detail") = 0
  /\ At("returned") => SearchDone
  /\ SearchDone =>
       LET items == task[1].items
           value == result[1].value
       IN /\ Len(value) = Len(items)
          /\ \A k \in 1..Len(items) :
               /\ k <= Len(value)
               /\ value[k].id = items[k].id
               /\ value[k].scoreLocal = items[k].scoreLocal
               /\ value[k].matching_type = items[k].matching_type
               /\ value[k].chosen = items[k].chosen
               /\ items[k].locations = None
               /\ value[k].locations =
                    IF task[1].lookups[k] = "ok" THEN Some("locations") ELSE None

\* searchRor has returned two candidates, the lookup of the first failed and
\* that of the second succeeded.
C22_Witness ==
  /\ SearchDone
  /\ Len(result[1].value) = 2
  /\ task[1].lookups = <<"failed", "ok">>
  /\ result[1].value[1].locations = None
  /\ result[1].value[2].locations # None

\* C25: searchRor sends at most 10 detail lookups, one for each of the 10
\* highest-ranked items (for every item when there are fewer) and in their
\* order, and returns these items, at most 10, in ranking order, in whatever
\* order the lookups end.
C25_FanOut ==
  LET sorted == sortItems([k \in 1..Len(arg.raw) |-> rawToItem(arg.raw[k])])
      n == IF Len(arg.raw) < 10 THEN Len(arg.raw) ELSE 10
  IN /\ KindCount(sent, "detail") <= 10
     /\ (At("details") \/ At("returned")) =>
          /\ Len(sent) = n + 1
          /\ \A k \in 1..n : sent[k + 1] = DetailRequest(sorted[k].id)
     /\ SearchDone =>
          /\ Len(result[1].value) = n
          /\ \A k \in 1..n : result[1].value[k].id = sorted[k].id

\* searchRor has returned 10 candidates for a response of more than 10 hits,
\* the recommended hit first; some lookups failed.
C25_Witness ==
  /\ SearchDone
  /\ Len(arg.raw) > 10
  /\ Len(result[1].value) = 10
  /\ KindCount(sent, "detail") = 10
  /\ result[1].value[1].chosen
  /\ result[1].value[2].id = arg.raw[Len(arg.raw)].organization.id
  /\ "failed" \in {task[1].lookups[k] : k \in 1..10}
  /\ "ok" \in {task[1].lookups[k] : k \in 1..10}

\* C23: putOrg returns whenever the status of the response is a success
\* (200 to 299), with the parsed body or, when the body is no JSON, with an
\* object holding the status only; it throws whenever the status is not a
\* success, whether the body is JSON or not.
C23_PutOrgOutcome ==
  (result # None /\ arg.fn = "putOrg") =>
    LET outcome == result[1].outcome
        success == arg.res.status >= 200 /\ arg.res.status <= 299
    IN /\ outcome.threw <=> ~success
       /\ success => outcome.value = IF arg.res.json THEN "updated" ELSE "status"
       /\ ~success => outcome.error = JsError("Error", "PUT failed: ", arg.res.status)

\* putOrg has returned the status-only object for a 204 without a body.
C23_Witness ==
  /\ result # None
  /\ arg.fn = "putOrg"
  /\ arg.res = Response(204, FALSE)
  /\ ~result[1].outcome.threw
  /\ result[1].outcome.value = "status"

\* C24 as claimed: whenever the confirmation is open, a record is loaded and
\* a candidate of the current list is selected.
C24_ConfirmingHasBoth ==
  confirmOpen =>
    /\ org # None
    /\ selectedIdx # None
    /\ selectedIdx[1] + 1 \in 1..Len(candidates)

\* the identifier a PUT request adds to the record's identifiers
Appended(request) == request.body[1].identifiers[Len(request.body[1].identifiers)]

\* C26: the identifier that a confirmLink appends is a registry identifier
\* for hasRorIdentifier; so a record this workflow has linked (one with an
\* entry in the history) carries a registry identifier as long as it is in
\* the catalog, no later write is sent for it, and no loadNext loads it.
C26_LinkedStaysLinked ==
  /\ [](\A k \in 1..Len(history) :
          LET j == IndexOf(catalog, history[k].uuid) IN
            j # 0 => hasRorIdentifier(catalog[j].identifiers))
  /\ [][ /\ PutSent =>
              /\ hasRorIdentifier(<<Appended(Last(sent'))>>)
              /\ \A k \in 1..Len(history) : history[k].uuid # Last(sent').target
         /\ PutSucceeds =>
              LET j == IndexOf(catalog', Last(sent).target) IN
                /\ j # 0
                /\ hasRorIdentifier(catalog'[j].identifiers)
                /\ eligibleItem(BackendPage(catalog', j - 1)) = None
         /\ (org' # org /\ org' # None) =>
              \A k \in 1..Len(history') : history'[k].uuid # org'[1].uuid
       ]_vars

\* After a link the next record is loaded: another one, and the linked
\* record has its registry identifier.
C26_Witness ==
  /\ task = None
  /\ Len(history) = 1
  /\ org # None
  /\ org[1].uuid # history[1].uuid
  /\ hasRorIdentifier(catalog[IndexOf(catalog, history[1].uuid)].identifiers)

\* C27: the entry a successful confirmLink puts first in the history names
\* the record of the PUT, the registry id of the identifier that PUT added
\* and the score and match type of the candidate with that id, which is the
\* candidate that was selected when Confirm was clicked, whatever is selected
\* when the PUT is answered.
C27_EntryOfTheWrite ==
  [][ /\ (task = None /\ task' # None /\ task'[1].op = "doLink") =>
           task'[1].chosen = Some(candidates[selectedIdx[1] + 1])
      /\ PutSent => Appended(Last(sent')).id = task[1].chosen[1].id
      /\ PutSucceeds =>
           /\ task'[1].op = "doLink"
           /\ history'[1].uuid = Last(sent).target
           /\ history'[1].rorId = Appended(Last(sent)).id
           /\ \E k \in 1..Len(candidates) :
                /\ candidates[k].id = history'[1].rorId
                /\ candidates[k].scoreLocal = history'[1].score
                /\ candidates[k].matching_type = history'[1].matchType
    ]_vars

\* A PUT is in flight for one candidate while the user has selected another.
C27_Witness ==
  /\ At("putOrg")
  /\ selectedIdx # None
  /\ candidates[selectedIdx[1] + 1].id # task[1].chosen[1].id
  /\ Appended(Last(sent)).id = task[1].chosen[1].id

\* C28: when no operation is in flight, a selection is a place of the
\* candidate list, and without a record the list is empty; the list changes
\* only when a loadNext empties it, together with the record, or when the
\* search sent for the name of the loaded record returns, and then it holds
\* the items that were looked up for that search, in their order; a step
\* that changes the record leaves the list empty.
C28_SelectionAndCandidates ==
  /\ [](task = None =>
          /\ selectedIdx # None => selectedIdx[1] + 1 \in 1..Len(candidates)
          /\ org = None => candidates = <<>>)
  /\ [][ /\ (candidates' # candidates) =>
              \/ candidates' = <<>> /\ org' = None /\ selectedIdx' = None /\ task' # None
              \/ /\ SearchReturned
                 /\ org # None
                 /\ org' = org
                 /\ \E j \in 1..Len(sent) :
                      /\ sent[j] = SearchRequest(org[1].name)
                      /\ Len(sent) = j + Len(candidates')
                      /\ \A k \in 1..Len(candidates') :
                           sent[j + k] = DetailRequest(candidates'[k].id)
         /\ (org' # org) => candidates' = <<>>
       ]_vars

\* No operation is in flight, two candidates are listed for the loaded
\* record and the user has selected the second.
C28_Witness ==
  /\ task = None
  /\ org # None
  /\ Len(candidates) = 2
  /\ selectedIdx = Some(1)
  /\ KindCount(sent, "detail") = 2

\* the user clears a history that has entries
ClearStep == history # <<>> /\ history' = <<>>

\* C29: clearing the history empties it and leaves the score, the record,
\* the candidates, the selection, the operation in flight and the catalog as
\* they are, and sends nothing; a link whose PUT succeeds afterwards puts its
\* entry in front of what the history holds then, so the entry is not lost
\* when the history was cleared while the link was in flight.
C29_ClearHistory ==
  [][ /\ ClearStep =>
           /\ UNCHANGED <<points, org, candidates, selectedIdx, sent, task, catalog,
                          loading, error, confirmOpen, toast>>
           /\ storage' = Persist(points, <<>>)
      /\ PutSucceeds =>
           /\ Len(history') = Len(history) + 1
           /\ history'[1].uuid = Last(sent).target
           /\ Tail(history') = history
           /\ points' = points + award(history'[1].score)
    ]_vars

\* The stored entry was cleared before the link completed: the history holds
\* the entry of the link alone, the score counts the stored points and the
\* award.
C29_Witness ==
  /\ Len(history) = 1
  /\ history[1].uuid = "u1"
  /\ history[1].ts >= rateLimitMs
  /\ points = StoredScore + award(history[1].score)

====
